---- MODULE Spec2Model ----
(***************************************************************************)
(* Model of the Wasmbed Zephyr application (zephyr-app/src).               *)
(*                                                                         *)
(* The first part models the WAMR integration layer, wamr_integration.c:   *)
(* the module and instance registries, the two id counters and the calls   *)
(* the layer makes into the WebAssembly engine.  The engine itself is not  *)
(* part of the repository; it is modelled at its interface, by the handles *)
(* it hands out and the objects it keeps alive.                            *)
(*                                                                         *)
(* The second part models the network handler (network_handler.c), the     *)
(* protocol handler (wasmbed_protocol.c) and the control loop of main.c,   *)
(* with the socket layer of the operating system at its interface.         *)
(***************************************************************************)
EXTENDS Integers, Sequences, FiniteSets, TLC

(***************************************************************************)
(* Bounds of the model.  The source sets MAX_MODULES and MAX_INSTANCES to  *)
(* 16 (wamr_integration.c:23-24); the registry code reads them only as a   *)
(* loop bound, and the model explores it at the capacities below.          *)
(* MaxModuleIds and MaxInstanceIds cap the number of ids the counters      *)
(* issue in an explored run; the counters are uint32_t in the source and   *)
(* never wrap within these bounds.                                         *)
(***************************************************************************)
ModuleCap == 2
InstanceCap == 2
MaxModuleIds == 3
MaxInstanceIds == 3

MAX_MODULES == ModuleCap
MAX_INSTANCES == InstanceCap

\* The C null pointer, and the zero a static or memset entry holds.
NULL == 0

\* The value both id counters are defined with.
FIRST_ID == 1

\* The value socket_fd is defined with and is set back to by every close.
NO_SOCKET == -1

ModuleSlots == 0 .. (MAX_MODULES - 1)
InstanceSlots == 0 .. (MAX_INSTANCES - 1)

VARIABLES
    wamr_initialized,   \* static bool wamr_initialized
    modules,            \* static module_entry_t modules[MAX_MODULES]
    instances,          \* static instance_entry_t instances[MAX_INSTANCES]
    next_module_id,     \* static uint32_t next_module_id
    next_instance_id,   \* static uint32_t next_instance_id
    eng_rt,             \* engine: the runtime is initialised
    eng_modules,        \* engine: handles of the loaded (compiled) modules
    eng_instances,      \* engine: live instances, [h, module]
    eng_envs,           \* engine: live execution environments, [h, instance]
    eng_fatal,          \* engine: instances a fatal trap has left corrupted
    last,               \* the last API call: its arguments, outcome, engine calls
    hist_module_ids,    \* history: module ids returned by successful loads
    hist_instance_ids,  \* history: instance ids returned by successful instantiates
    hist_inst_module,   \* history: instance id -> module id it was made from
    hist_destroyed,     \* history: instance ids whose instance has been destroyed
    network_initialized,  \* static bool network_initialized
    net_iface,            \* static struct net_if *net_iface (NULL or the interface)
    socket_fd,            \* static int socket_fd
    protocol_initialized, \* static bool protocol_initialized
    gateway_endpoint,     \* static char gateway_endpoint[64], as its C string
    gateway_connected,    \* static bool gateway_connected
    os_fds,               \* socket layer: the open socket descriptors
    os_conn,              \* socket layer: the descriptor of the connected socket, or -1
    rx,                   \* socket layer: bytes the peer has sent and nobody has read
    link,                 \* socket layer: the connection is "up", "closed" by the peer, "reset", or "none"
    os_wait,              \* socket layer: buffer length of the zsock_recv kept waiting, or 0
    recv_buffer,          \* the caller's receive buffer: the bytes the last receive put in
    pc                    \* where the control thread is

registry_vars == <<wamr_initialized, modules, instances, next_module_id, next_instance_id>>
engine_vars == <<eng_rt, eng_modules, eng_instances, eng_envs, eng_fatal>>
hist_vars == <<hist_module_ids, hist_instance_ids, hist_inst_module, hist_destroyed>>
network_vars == <<network_initialized, net_iface, socket_fd>>
protocol_vars == <<protocol_initialized, gateway_endpoint, gateway_connected>>
os_vars == <<os_fds, os_conn, rx, link, os_wait>>
net_vars == <<network_vars, protocol_vars, os_vars, recv_buffer>>
wamr_vars == <<registry_vars, engine_vars, hist_vars>>
vars == <<registry_vars, engine_vars, last, hist_vars, net_vars, pc>>

(***************************************************************************)
(* Registry entries.                                                       *)
(***************************************************************************)
ZeroModuleEntry == [id |-> 0, module |-> NULL, in_use |-> FALSE]
ZeroInstanceEntry == [id |-> 0, instance |-> NULL, exec_env |-> NULL, in_use |-> FALSE]

\* The smallest element of a non-empty set of integers.
MinOf(S) == CHOOSE x \in S : \A y \in S : x <= y

\* Mutant: with no free entry the search settles on slot 0 instead of -1.
FindFreeModuleSlot_Evict ==
    LET free == {i \in ModuleSlots : ~modules[i].in_use}
    IN  IF free = {} THEN 0 ELSE MinOf(free)

\* for (i = 0; i < MAX_MODULES; i++) if (!modules[i].in_use) { slot = i; break; }
FindFreeModuleSlot ==
    LET free == {i \in ModuleSlots : ~modules[i].in_use}
    IN  IF free = {} THEN -1 ELSE MinOf(free)

\* Mutant: with no free entry the search settles on slot 0 instead of -1.
FindFreeInstanceSlot_Evict ==
    LET free == {i \in InstanceSlots : ~instances[i].in_use}
    IN  IF free = {} THEN 0 ELSE MinOf(free)

\* for (i = 0; i < MAX_INSTANCES; i++) if (!instances[i].in_use) { slot = i; break; }
FindFreeInstanceSlot ==
    LET free == {i \in InstanceSlots : ~instances[i].in_use}
    IN  IF free = {} THEN -1 ELSE MinOf(free)

\* The first in-use module entry with this id, or -1.
FindModuleSlot(module_id) ==
    LET hit == {i \in ModuleSlots : modules[i].in_use /\ modules[i].id = module_id}
    IN  IF hit = {} THEN -1 ELSE MinOf(hit)

\* The first in-use instance entry with this id, or -1.
FindInstanceSlot(instance_id) ==
    LET hit == {i \in InstanceSlots : instances[i].in_use /\ instances[i].id = instance_id}
    IN  IF hit = {} THEN -1 ELSE MinOf(hit)

(***************************************************************************)
(* The engine, at its interface.  A handle is a positive number; the       *)
(* engine hands out the smallest one no live object of the kind holds.     *)
(***************************************************************************)
FreshHandle(used) == MinOf((1 .. (Cardinality(used) + 1)) \ used)

EngInstanceHandles == {i.h : i \in eng_instances}
EngEnvHandles == {e.h : e \in eng_envs}

\* The bytecode images a caller may pass: the test module of
\* examples/simple_wasm (exports add, multiply, ...) and bytes that are no module.
SimpleWasm == "simple_wasm"
Garbage == "garbage"
Exports == {"add", "multiply"}

\* The statics as the program image defines them.
Memory ==
    /\ wamr_initialized = FALSE
    /\ modules = [i \in ModuleSlots |-> ZeroModuleEntry]
    /\ instances = [i \in InstanceSlots |-> ZeroInstanceEntry]
    /\ next_module_id = FIRST_ID
    /\ next_instance_id = FIRST_ID
    /\ eng_rt = FALSE
    /\ eng_modules = {}
    /\ eng_instances = {}
    /\ eng_envs = {}
    /\ eng_fatal = {}
    /\ hist_module_ids = {}
    /\ hist_instance_ids = {}
    /\ hist_inst_module = {}
    /\ hist_destroyed = {}
    /\ network_initialized = FALSE
    /\ net_iface = NULL
    /\ socket_fd = NO_SOCKET
    /\ protocol_initialized = FALSE
    /\ gateway_endpoint = <<>>
    /\ gateway_connected = FALSE
    /\ os_fds = {}
    /\ os_conn = NO_SOCKET
    /\ rx = <<>>
    /\ link = "none"
    /\ os_wait = 0
    /\ recv_buffer = <<>>

\* The program image, before any call.
Statics == Memory /\ last = [op |-> "boot", ret |-> 0, err |-> "OK", eng |-> <<>>]

\* The state a caller of the API starts from.
Init == Statics /\ pc = "api"

(***************************************************************************)
(* Engine calls, as the log of one API call records them.                  *)
(***************************************************************************)
EngCall(f, h) == [f |-> f, h |-> h]

(***************************************************************************)
(* wamr_init                                                               *)
(***************************************************************************)
\* Mutant: wamr_init starts the module ids over.
InitNextModuleId_Reset == FIRST_ID

\* The value of next_module_id after a successful wamr_init: the function
\* clears the two registries and leaves the counters alone.
InitNextModuleId == next_module_id
InitNextInstanceId == next_instance_id

\* Mutant: wamr_init does not look at wamr_initialized and initialises again,
\* clearing the registries.
wamr_init_Reinitialises(rt_ok) ==
    IF ~rt_ok THEN
        /\ last' = [op |-> "init", ret |-> -1, err |-> "InitError",
                    eng |-> <<EngCall("full_init", NULL)>>]
        /\ UNCHANGED <<registry_vars, engine_vars, hist_vars>>
    ELSE
        /\ eng_rt' = TRUE
        /\ modules' = [i \in ModuleSlots |-> ZeroModuleEntry]
        /\ instances' = [i \in InstanceSlots |-> ZeroInstanceEntry]
        /\ next_module_id' = InitNextModuleId
        /\ next_instance_id' = InitNextInstanceId
        /\ wamr_initialized' = TRUE
        /\ last' = [op |-> "init", ret |-> 0, err |-> "OK", eng |-> <<EngCall("full_init", NULL)>>]
        /\ UNCHANGED <<eng_modules, eng_instances, eng_envs, eng_fatal, hist_vars>>

wamr_init(rt_ok) ==
    IF wamr_initialized THEN
        /\ last' = [op |-> "init", ret |-> 0, err |-> "AlreadyInitialized", eng |-> <<>>]
        /\ UNCHANGED <<registry_vars, engine_vars, hist_vars>>
    ELSE IF ~rt_ok THEN
        /\ last' = [op |-> "init", ret |-> -1, err |-> "InitError",
                    eng |-> <<EngCall("full_init", NULL)>>]
        /\ UNCHANGED <<registry_vars, engine_vars, hist_vars>>
    ELSE
        /\ eng_rt' = TRUE
        /\ modules' = [i \in ModuleSlots |-> ZeroModuleEntry]
        /\ instances' = [i \in InstanceSlots |-> ZeroInstanceEntry]
        /\ next_module_id' = InitNextModuleId
        /\ next_instance_id' = InitNextInstanceId
        /\ wamr_initialized' = TRUE
        /\ last' = [op |-> "init", ret |-> 0, err |-> "OK", eng |-> <<EngCall("full_init", NULL)>>]
        /\ UNCHANGED <<eng_modules, eng_instances, eng_envs, eng_fatal, hist_vars>>

\* wasm_runtime_load: a handle for bytes the engine accepts (and has the
\* memory for), NULL otherwise.
EngineLoad(bytes, eng_ok) ==
    IF bytes = SimpleWasm /\ eng_ok THEN FreshHandle(eng_modules) ELSE NULL

(***************************************************************************)
(* wamr_load_module                                                        *)
(***************************************************************************)
NullPtr == "null"
NoWrite == -1

\* The calls explored: a well-formed call with the test module, one with
\* bytes that are no module, and the three invalid-parameter shapes.
LoadArgs ==
    { [bytes |-> SimpleWasm, size |-> 1, out |-> TRUE],
      [bytes |-> Garbage, size |-> 1, out |-> TRUE],
      [bytes |-> NullPtr, size |-> 1, out |-> TRUE],
      [bytes |-> SimpleWasm, size |-> 0, out |-> TRUE],
      [bytes |-> SimpleWasm, size |-> 1, out |-> FALSE] }

\* Mutant: the id is taken from the counter before the engine is asked, so a
\* rejected module uses one up.
LoadModuleFail_ConsumesId(a, err, eng) ==
    /\ last' = [op |-> "load", ret |-> -1, err |-> err, eng |-> eng,
                a |-> a, out |-> NoWrite]
    /\ next_module_id' = IF err = "CompileError" THEN next_module_id + 1
                                                 ELSE next_module_id
    /\ UNCHANGED <<wamr_initialized, modules, instances, next_instance_id,
                   engine_vars, hist_vars>>

\* An error return of wamr_load_module: return -1, nothing stored.
LoadModuleFail(a, err, eng) ==
    /\ last' = [op |-> "load", ret |-> -1, err |-> err, eng |-> eng,
                a |-> a, out |-> NoWrite]
    /\ UNCHANGED <<registry_vars, engine_vars, hist_vars>>

\* The success path: store the module in the registry, return its id.
LoadModuleStore(a, slot, module) ==
    /\ modules' = [modules EXCEPT ![slot] =
                      [id |-> next_module_id, module |-> module, in_use |-> TRUE]]
    /\ next_module_id' = next_module_id + 1
    /\ eng_modules' = eng_modules \cup {module}
    /\ last' = [op |-> "load", ret |-> 0, err |-> "OK", eng |-> <<EngCall("load", module)>>,
                a |-> a, out |-> next_module_id]
    /\ hist_module_ids' = hist_module_ids \cup {next_module_id}
    /\ UNCHANGED <<wamr_initialized, instances, next_instance_id,
                   eng_rt, eng_instances, eng_envs, eng_fatal,
                   hist_instance_ids, hist_inst_module, hist_destroyed>>

\* Mutant: the function does not look at wamr_initialized.
wamr_load_module_Unchecked(a, eng_ok) ==
    IF a.bytes = NullPtr \/ a.size = 0 \/ ~a.out THEN
        LoadModuleFail(a, "InvalidParams", <<>>)
    ELSE IF FindFreeModuleSlot < 0 THEN
        LoadModuleFail(a, "ResourceExhausted", <<>>)
    ELSE
        LET module == EngineLoad(a.bytes, eng_ok)
        IN  IF module = NULL
            THEN LoadModuleFail(a, "CompileError", <<EngCall("load", NULL)>>)
            ELSE LoadModuleStore(a, FindFreeModuleSlot, module)

wamr_load_module(a, eng_ok) ==
    IF ~wamr_initialized THEN
        LoadModuleFail(a, "NotInitialized", <<>>)
    ELSE IF a.bytes = NullPtr \/ a.size = 0 \/ ~a.out THEN
        LoadModuleFail(a, "InvalidParams", <<>>)
    ELSE IF FindFreeModuleSlot < 0 THEN
        LoadModuleFail(a, "ResourceExhausted", <<>>)
    ELSE
        LET module == EngineLoad(a.bytes, eng_ok)
        IN  IF module = NULL
            THEN LoadModuleFail(a, "CompileError", <<EngCall("load", NULL)>>)
            ELSE LoadModuleStore(a, FindFreeModuleSlot, module)

(***************************************************************************)
(* wamr_instantiate                                                        *)
(***************************************************************************)
\* What the engine does with an instantiation request.
InstantiateOutcomes == {"ok", "inst_fail", "env_fail"}

\* Mutant: the slot is marked in use before the engine is asked, and an
\* engine failure leaves it so.
InstantiateFail_KeepsSlot(module_id, err, eng) ==
    /\ last' = [op |-> "instantiate", ret |-> -1, err |-> err, eng |-> eng,
                module_id |-> module_id, out |-> NoWrite]
    /\ instances' = IF err = "InstantiationError"
                    THEN [instances EXCEPT ![FindFreeInstanceSlot].in_use = TRUE]
                    ELSE instances
    /\ UNCHANGED <<wamr_initialized, modules, next_module_id, next_instance_id,
                   engine_vars, hist_vars>>

\* Mutant: when the execution environment cannot be created the function
\* returns without deinstantiating, and the engine keeps the instance.
InstantiateFail_LeaksInstance(module_id, err, eng) ==
    LET leaks == Len(eng) >= 2
        kept == IF leaks THEN <<eng[1], eng[2]>> ELSE eng
    IN  /\ last' = [op |-> "instantiate", ret |-> -1, err |-> err, eng |-> kept,
                    module_id |-> module_id, out |-> NoWrite]
        /\ eng_instances' =
              IF leaks
              THEN eng_instances \cup
                     {[h |-> eng[1].h, module |-> modules[FindModuleSlot(module_id)].module]}
              ELSE eng_instances
        /\ UNCHANGED <<registry_vars, eng_rt, eng_modules, eng_envs, eng_fatal, hist_vars>>

\* An error return of wamr_instantiate: return -1, nothing stored.  When the
\* execution environment could not be created the instance the engine had
\* made is deinstantiated again, so the engine holds what it held before.
InstantiateFail(module_id, err, eng) ==
    /\ last' = [op |-> "instantiate", ret |-> -1, err |-> err, eng |-> eng,
                module_id |-> module_id, out |-> NoWrite]
    /\ UNCHANGED <<registry_vars, engine_vars, hist_vars>>

\* The success path: store the instance in the registry, return its id.
InstantiateStore(module_id, slot, module) ==
    LET instance == FreshHandle(EngInstanceHandles)
        exec_env == FreshHandle(EngEnvHandles)
    IN  /\ instances' = [instances EXCEPT ![slot] =
                            [id |-> next_instance_id, instance |-> instance,
                             exec_env |-> exec_env, in_use |-> TRUE]]
        /\ next_instance_id' = next_instance_id + 1
        /\ eng_instances' = eng_instances \cup {[h |-> instance, module |-> module]}
        /\ eng_envs' = eng_envs \cup {[h |-> exec_env, instance |-> instance]}
        /\ last' = [op |-> "instantiate", ret |-> 0, err |-> "OK",
                    eng |-> <<EngCall("instantiate", instance),
                              EngCall("create_exec_env", exec_env)>>,
                    module_id |-> module_id, out |-> next_instance_id]
        /\ hist_instance_ids' = hist_instance_ids \cup {next_instance_id}
        /\ hist_inst_module' = hist_inst_module \cup {<<next_instance_id, module_id>>}
        /\ UNCHANGED <<wamr_initialized, modules, next_module_id,
                       eng_rt, eng_modules, eng_fatal,
                       hist_module_ids, hist_destroyed>>

wamr_instantiate(module_id, o) ==
    IF ~wamr_initialized THEN
        InstantiateFail(module_id, "NotInitialized", <<>>)
    ELSE
        LET module_slot == FindModuleSlot(module_id)
            module == IF module_slot < 0 THEN NULL ELSE modules[module_slot].module
            slot == FindFreeInstanceSlot
        IN  IF module = NULL THEN
                InstantiateFail(module_id, "NotFound", <<>>)
            ELSE IF slot < 0 THEN
                InstantiateFail(module_id, "ResourceExhausted", <<>>)
            ELSE IF o = "inst_fail" THEN
                InstantiateFail(module_id, "InstantiationError",
                                <<EngCall("instantiate", NULL)>>)
            ELSE IF o = "env_fail" THEN
                InstantiateFail(module_id, "InstantiationError",
                                <<EngCall("instantiate", FreshHandle(EngInstanceHandles)),
                                  EngCall("create_exec_env", NULL),
                                  EngCall("deinstantiate", FreshHandle(EngInstanceHandles))>>)
            ELSE
                InstantiateStore(module_id, slot, module)

(***************************************************************************)
(* wamr_call_function                                                      *)
(***************************************************************************)
\* What the engine does with a call: it returns normally, or the code traps
\* (wasm_runtime_call_wasm returns false and an exception is set); a trap may
\* be one the engine reports as fatal for the instance.
CallOutcomes == {"ok", "trap", "fatal"}

\* The value the exported function computes (examples/simple_wasm/test_simple.c).
WasmResult(fname, args) ==
    IF fname = "add" THEN args[1] + args[2] ELSE args[1] * args[2]

\* wasm_runtime_call_wasm(exec_env, function, argc, argv) returns the
\* function's result in place, in argv[0].
ArgvAfterCall(fname, args) == [args EXCEPT ![1] = WasmResult(fname, args)]

\* What the caller's results buffer holds after a successful call: the code
\* never writes to it.
ResultsAfterCall(fname, args, results) == results

\* The trap class of the API call just before this one, when that was a call
\* on the same instance id; "none" otherwise.
PrevTrap(c) ==
    IF last.op = "call" /\ last.instance_id = c.instance_id THEN last.trap ELSE "none"

\* Mutant: a trap makes the layer give up the instance's registry entry.
CallReturn_DropsOnTrap(c, ret, err, eng, args, results, trap) ==
    /\ last' = [op |-> "call", ret |-> ret, err |-> err, eng |-> eng,
                instance_id |-> c.instance_id, fname |-> c.fname,
                args_in |-> c.args, args |-> args, results |-> results,
                trap |-> trap, prev |-> PrevTrap(c)]
    /\ eng_fatal' = IF trap = "fatal"
                    THEN eng_fatal \cup {instances[FindInstanceSlot(c.instance_id)].instance}
                    ELSE eng_fatal
    /\ instances' = IF trap = "none" THEN instances
                    ELSE [instances EXCEPT ![FindInstanceSlot(c.instance_id)].in_use = FALSE]
    /\ UNCHANGED <<wamr_initialized, modules, next_module_id, next_instance_id,
                   eng_rt, eng_modules, eng_instances, eng_envs, hist_vars>>

\* A return of wamr_call_function.  The call changes no variable of the
\* integration layer.  trap is the engine's class of the trap the call ended
\* in ("none", "trap", "fatal"); the layer sees no difference between the
\* two, the engine remembers the instances a fatal one has hit.
CallReturn(c, ret, err, eng, args, results, trap) ==
    /\ last' = [op |-> "call", ret |-> ret, err |-> err, eng |-> eng,
                instance_id |-> c.instance_id, fname |-> c.fname,
                args_in |-> c.args, args |-> args, results |-> results,
                trap |-> trap, prev |-> PrevTrap(c)]
    /\ eng_fatal' = IF trap = "fatal"
                    THEN eng_fatal \cup {instances[FindInstanceSlot(c.instance_id)].instance}
                    ELSE eng_fatal
    /\ UNCHANGED <<registry_vars, eng_rt, eng_modules, eng_instances, eng_envs, hist_vars>>

\* The calls explored.
CallArgs ==
    [instance_id : 0 .. MaxInstanceIds, fname : {"add", "nosuch"},
     args : {<<5, 3>>}, results : {<<0>>}]

wamr_call_function(c, o) ==
    IF ~wamr_initialized THEN
        CallReturn(c, -1, "NotInitialized", <<>>, c.args, c.results, "none")
    ELSE
        LET slot == FindInstanceSlot(c.instance_id)
            instance == IF slot < 0 THEN NULL ELSE instances[slot].instance
            exec_env == IF slot < 0 THEN NULL ELSE instances[slot].exec_env
        IN  IF instance = NULL \/ exec_env = NULL THEN
                CallReturn(c, -1, "NotFound", <<>>, c.args, c.results, "none")
            ELSE IF c.fname \notin Exports THEN
                CallReturn(c, -1, "FunctionNotFound",
                           <<EngCall("lookup_function", instance)>>,
                           c.args, c.results, "none")
            ELSE IF o # "ok" THEN
                CallReturn(c, -1, "Trap",
                           <<EngCall("lookup_function", instance),
                             EngCall("call_wasm", exec_env),
                             EngCall("get_exception", instance)>>,
                           c.args, c.results, o)
            ELSE
                CallReturn(c, 0, "OK",
                           <<EngCall("lookup_function", instance),
                             EngCall("call_wasm", exec_env)>>,
                           ArgvAfterCall(c.fname, c.args),
                           ResultsAfterCall(c.fname, c.args, c.results),
                           "none")

(***************************************************************************)
(* wamr_process                                                            *)
(***************************************************************************)
wamr_process ==
    /\ last' = [op |-> "process", ret |-> 0, err |-> "OK", eng |-> <<>>]
    /\ UNCHANGED <<registry_vars, engine_vars, hist_vars>>

(***************************************************************************)
(* wamr_cleanup                                                            *)
(***************************************************************************)
\* Mutant: the instance loop deinstantiates and leaves the execution
\* environment alive.
RECURSIVE CleanupInstances_KeepsEnv(_)
CleanupInstances_KeepsEnv(i) ==
    IF i >= MAX_INSTANCES THEN <<>>
    ELSE (IF instances[i].in_use /\ instances[i].instance # NULL
          THEN <<EngCall("deinstantiate", instances[i].instance)>> ELSE <<>>)
         \o CleanupInstances_KeepsEnv(i + 1)

\* The engine calls of the instance loop, from slot i on.
RECURSIVE CleanupInstances(_)
CleanupInstances(i) ==
    IF i >= MAX_INSTANCES THEN <<>>
    ELSE (IF instances[i].in_use
          THEN (IF instances[i].exec_env # NULL
                THEN <<EngCall("destroy_exec_env", instances[i].exec_env)>> ELSE <<>>)
               \o (IF instances[i].instance # NULL
                   THEN <<EngCall("deinstantiate", instances[i].instance)>> ELSE <<>>)
          ELSE <<>>)
         \o CleanupInstances(i + 1)

\* The engine calls of the module loop, from slot i on.
RECURSIVE CleanupModules(_)
CleanupModules(i) ==
    IF i >= MAX_MODULES THEN <<>>
    ELSE (IF modules[i].in_use /\ modules[i].module # NULL
          THEN <<EngCall("unload", modules[i].module)>> ELSE <<>>)
         \o CleanupModules(i + 1)

\* The handles a log passes to engine function f.
Released(log, f) == {log[k].h : k \in {j \in DOMAIN log : log[j].f = f}}

wamr_cleanup ==
    IF ~wamr_initialized THEN
        /\ last' = [op |-> "cleanup", ret |-> 0, err |-> "NotInitialized", eng |-> <<>>]
        /\ UNCHANGED <<registry_vars, engine_vars, hist_vars>>
    ELSE
        LET log == CleanupInstances(0) \o CleanupModules(0)
        IN  /\ instances' = [i \in InstanceSlots |->
                                [instances[i] EXCEPT !.in_use = FALSE]]
            /\ modules' = [i \in ModuleSlots |-> [modules[i] EXCEPT !.in_use = FALSE]]
            /\ wamr_initialized' = FALSE
            \* wasm_runtime_destroy ends the runtime and all it still holds.
            /\ eng_rt' = FALSE
            /\ eng_modules' = {}
            /\ eng_instances' = {}
            /\ eng_envs' = {}
            /\ eng_fatal' = {}
            /\ last' = [op |-> "cleanup", ret |-> 0, err |-> "OK",
                        eng |-> log \o <<EngCall("destroy", NULL)>>]
            /\ hist_destroyed' = hist_destroyed \cup
                                   {instances[i].id : i \in {j \in InstanceSlots :
                                                               instances[j].in_use}}
            /\ UNCHANGED <<next_module_id, next_instance_id,
                           hist_module_ids, hist_instance_ids, hist_inst_module>>

(***************************************************************************)
(* The socket layer, at its interface.  The application holds at most one  *)
(* socket; a descriptor is a number from 0 up, the smallest one not open.  *)
(* The bytes of the connection are modelled by the frame they belong to    *)
(* and their place in it.                                                  *)
(***************************************************************************)
\* Bounds: the longest message a caller sends, the bytes of an inbound
\* frame, and the bytes the peer may have in flight.
MaxSendLen == 2
FrameLen == 2
MaxRx == 2

\* uint8_t recv_buffer[4096] of main; the model explores it at FrameLen bytes,
\* so that one receive can hold a whole frame and no more.
RECV_BUFFER_LEN == FrameLen

\* The interface net_if_get_default returns when there is one.
IFACE == 1

FreshFd(open) == MinOf((0 .. Cardinality(open)) \ open)

OsCall(f, fd, r) == [f |-> f, fd |-> fd, r |-> r]

\* The sockets are created with zsock_socket and never given O_NONBLOCK, a
\* receive timeout or MSG_DONTWAIT: a receive on an empty connection waits.
OsNonBlocking == FALSE

Digits == {"0", "1", "2", "3", "4", "5", "6", "7", "8", "9"}

\* net_addr_pton(AF_INET, host, ...): an address in digits and dots is
\* taken, a name is refused.
ValidAddr(host) == host # <<>> /\ \A i \in 1 .. Len(host) : host[i] \in Digits \cup {"."}

\* The addresses a caller connects to: 10.0.0.1 and the name "gw".
AddrHost == <<"1", "0", ".", "0", ".", "0", ".", "1">>
NameHost == <<"g", "w">>
Hosts == {AddrHost, NameHost}
GATEWAY_PORT == 40029

\* What the peer sends: a Deploy and a Heartbeat frame, and the head of a
\* frame whose length field is above the maximum message size.
MsgKinds == {"deploy", "heartbeat", "oversize"}
Frame(kind) == [k \in 1 .. FrameLen |-> [msg |-> kind, k |-> k]]

(***************************************************************************)
(* network_init, network_process                                           *)
(***************************************************************************)
network_init(iface_ok) ==
    IF network_initialized THEN
        /\ last' = [op |-> "network_init", ret |-> 0, err |-> "AlreadyInitialized", os |-> <<>>]
        /\ UNCHANGED net_vars
    ELSE IF ~iface_ok THEN
        /\ last' = [op |-> "network_init", ret |-> -1, err |-> "NoInterface", os |-> <<>>]
        /\ UNCHANGED net_vars
    ELSE
        /\ net_iface' = IFACE
        /\ network_initialized' = TRUE
        /\ last' = [op |-> "network_init", ret |-> 0, err |-> "OK", os |-> <<>>]
        /\ UNCHANGED <<socket_fd, protocol_vars, os_vars, recv_buffer>>

network_process ==
    /\ last' = [op |-> "network_process", ret |-> 0, err |-> "OK", os |-> <<>>]
    /\ UNCHANGED net_vars

(***************************************************************************)
(* network_connect, network_connect_tls.  Connect(tls, host, port, o) is   *)
(* what either leaves behind: the return value, socket_fd, the open        *)
(* descriptors, and the calls made.  o is what the socket layer answers:   *)
(* "ok", or the step it refuses ("socket", "connect").                     *)
(***************************************************************************)
ConnectOutcomes == {"ok", "socket", "connect"}

\* Mutant: a failed step returns with the new socket still open and held.
ConnectFailure_KeepsSocket(fd, open) == [socket_fd |-> fd, fds |-> open \cup {fd}]

\* zsock_close(socket_fd); socket_fd = -1; on the failure of a step after
\* the socket was created.
ConnectFailure(fd, open) == [socket_fd |-> NO_SOCKET, fds |-> open]

Connect(tls, host, port, o) ==
    LET had == socket_fd >= 0
        open == IF had THEN os_fds \ {socket_fd} ELSE os_fds
        conn == IF had /\ os_conn = socket_fd THEN NO_SOCKET ELSE os_conn
        log0 == IF had THEN <<OsCall("close", socket_fd, 0)>> ELSE <<>>
        fd == FreshFd(open)
        log1 == log0 \o <<OsCall("socket", fd, fd)>>
                     \o (IF tls THEN <<OsCall("setsockopt", fd, 0)>> ELSE <<>>)
        fail == ConnectFailure(fd, open)
    IN  IF ~network_initialized THEN
            [ret |-> -1, err |-> "NotInitialized", socket_fd |-> socket_fd,
             fds |-> os_fds, conn |-> os_conn, os |-> <<>>]
        ELSE IF o = "socket" THEN
            [ret |-> -1, err |-> "ConnectError", socket_fd |-> NO_SOCKET,
             fds |-> open, conn |-> conn,
             os |-> log0 \o <<OsCall("socket", NO_SOCKET, -1)>>]
        ELSE IF ~ValidAddr(host) THEN
            [ret |-> -1, err |-> "ConnectError", socket_fd |-> fail.socket_fd,
             fds |-> fail.fds, conn |-> conn,
             os |-> log1 \o <<OsCall("pton", fd, -1), OsCall("close", fd, 0)>>]
        ELSE IF o = "connect" THEN
            [ret |-> -1, err |-> "ConnectError", socket_fd |-> fail.socket_fd,
             fds |-> fail.fds, conn |-> conn,
             os |-> log1 \o <<OsCall("pton", fd, 0), OsCall("connect", fd, -1),
                              OsCall("close", fd, 0)>>]
        ELSE
            [ret |-> 0, err |-> "OK", socket_fd |-> fd,
             fds |-> open \cup {fd}, conn |-> fd,
             os |-> log1 \o <<OsCall("pton", fd, 0), OsCall("connect", fd, 0)>>]

\* The socket layer after a connect call: a new connection starts with
\* nothing to read; closing the connected socket drops what was unread.
ConnectOs(c) ==
    /\ os_fds' = c.fds
    /\ os_conn' = c.conn
    /\ rx' = IF c.os = <<>> THEN rx ELSE <<>>
    /\ link' = IF c.os = <<>> THEN link ELSE IF c.conn # NO_SOCKET THEN "up" ELSE "none"
    /\ UNCHANGED os_wait

network_connect(host, port, o) ==
    LET c == Connect(FALSE, host, port, o)
    IN  /\ socket_fd' = c.socket_fd
        /\ ConnectOs(c)
        /\ last' = [op |-> "network_connect", ret |-> c.ret, err |-> c.err, os |-> c.os,
                    host |-> host, port |-> port]
        /\ UNCHANGED <<network_initialized, net_iface, protocol_vars, recv_buffer>>

network_connect_tls(host, port, o) ==
    LET c == Connect(TRUE, host, port, o)
    IN  /\ socket_fd' = c.socket_fd
        /\ ConnectOs(c)
        /\ last' = [op |-> "network_connect_tls", ret |-> c.ret, err |-> c.err, os |-> c.os,
                    host |-> host, port |-> port]
        /\ UNCHANGED <<network_initialized, net_iface, protocol_vars, recv_buffer>>

(***************************************************************************)
(* network_send.  sent is what zsock_send answers: -1, or the number of    *)
(* bytes it took, which may be fewer than asked.                           *)
(***************************************************************************)
\* Mutant: wasmbed_protocol_send_message sends whatever the flag holds.
GatewayNotConnected_Unchecked == FALSE

\* if (socket_fd < 0), the guard of network_send and network_receive
SocketNotConnected == socket_fd < 0

Send(data_len, sent) ==
    IF SocketNotConnected THEN
        [ret |-> -1, err |-> "NotConnected", os |-> <<>>, sent |-> 0]
    ELSE IF sent < 0 THEN
        [ret |-> -1, err |-> "SendError", os |-> <<OsCall("send", socket_fd, -1)>>, sent |-> 0]
    ELSE
        [ret |-> 0, err |-> IF sent # data_len THEN "PartialSend" ELSE "OK",
         os |-> <<OsCall("send", socket_fd, sent)>>, sent |-> sent]

network_send(data_len, sent) ==
    LET s == Send(data_len, sent)
    IN  /\ last' = [op |-> "network_send", ret |-> s.ret, err |-> s.err, os |-> s.os,
                    data_len |-> data_len, sent |-> s.sent]
        /\ UNCHANGED net_vars

(***************************************************************************)
(* network_receive.  zsock_recv fails on a connection that is reset, hands *)
(* over the first n unread bytes when there are some, and answers 0 when   *)
(* the peer has closed; with nothing to read on a connection that is up it *)
(* answers EAGAIN on a non-blocking socket and keeps the caller waiting on *)
(* a blocking one.                                                         *)
(***************************************************************************)
\* zsock_recv does not return yet.
RecvWaits == ~SocketNotConnected /\ rx = <<>> /\ link = "up" /\ ~OsNonBlocking

Receive(buffer_len, n) ==
    IF SocketNotConnected THEN
        [ret |-> -1, err |-> "NotConnected", received_len |-> NoWrite,
         data |-> <<>>, rest |-> rx, os |-> <<>>]
    ELSE IF link = "reset" THEN
        [ret |-> -1, err |-> "RecvError", received_len |-> NoWrite,
         data |-> <<>>, rest |-> rx, os |-> <<OsCall("recv", socket_fd, -1)>>]
    ELSE IF rx = <<>> /\ link = "up" THEN
        [ret |-> 0, err |-> "NoData", received_len |-> 0,
         data |-> <<>>, rest |-> rx, os |-> <<OsCall("recv", socket_fd, -1)>>]
    ELSE IF rx = <<>> THEN
        [ret |-> 0, err |-> "OK", received_len |-> 0,
         data |-> <<>>, rest |-> rx, os |-> <<OsCall("recv", socket_fd, 0)>>]
    ELSE
        [ret |-> 0, err |-> "OK", received_len |-> n,
         data |-> SubSeq(rx, 1, n), rest |-> SubSeq(rx, n + 1, Len(rx)),
         os |-> <<OsCall("recv", socket_fd, n)>>]

\* The counts zsock_recv may hand over: any part of what is unread that the
\* buffer holds.
RecvCounts(buffer_len) ==
    IF SocketNotConnected \/ rx = <<>> THEN {1}
    ELSE 1 .. (IF buffer_len < Len(rx) THEN buffer_len ELSE Len(rx))

network_receive(buffer_len, n) ==
    IF RecvWaits THEN
        /\ n = 1
        /\ os_wait' = buffer_len
        /\ last' = [op |-> "zsock_recv_wait", ret |-> 0, err |-> "Waiting", os |-> <<>>,
                    buffer_len |-> buffer_len]
        /\ UNCHANGED <<network_vars, protocol_vars, os_fds, os_conn, rx, link, recv_buffer>>
    ELSE
        LET r == Receive(buffer_len, n)
        IN  /\ n \in RecvCounts(buffer_len)
            /\ rx' = r.rest
            /\ os_wait' = 0
            /\ recv_buffer' = r.data
            /\ last' = [op |-> "network_receive", ret |-> r.ret, err |-> r.err, os |-> r.os,
                        buffer_len |-> buffer_len, received_len |-> r.received_len,
                        data |-> r.data]
            /\ UNCHANGED <<network_vars, protocol_vars, os_fds, os_conn, link>>

\* The control thread is inside zsock_recv, waiting.
Waiting == os_wait > 0

\* zsock_recv returns to the network_receive that was kept waiting.
network_receive_return(n) ==
    /\ Waiting
    /\ ~RecvWaits
    /\ network_receive(os_wait, n)

(***************************************************************************)
(* The peer and the network between: the gateway sends a frame, closes the *)
(* connection, or the connection breaks.                                   *)
(***************************************************************************)
PeerSends(kind) ==
    /\ link = "up"
    /\ Len(rx) + FrameLen <= MaxRx
    /\ rx' = rx \o Frame(kind)
    /\ last' = [op |-> "peer_sends", ret |-> 0, err |-> "OK", os |-> <<>>]
    /\ UNCHANGED <<network_vars, protocol_vars, os_fds, os_conn, link, os_wait, recv_buffer>>

PeerCloses ==
    /\ link = "up"
    /\ link' = "closed"
    /\ last' = [op |-> "peer_closes", ret |-> 0, err |-> "OK", os |-> <<>>]
    /\ UNCHANGED <<network_vars, protocol_vars, os_fds, os_conn, rx, os_wait, recv_buffer>>

LinkResets ==
    /\ link \in {"up", "closed"}
    /\ link' = "reset"
    /\ rx' = <<>>
    /\ last' = [op |-> "link_resets", ret |-> 0, err |-> "OK", os |-> <<>>]
    /\ UNCHANGED <<network_vars, protocol_vars, os_fds, os_conn, os_wait, recv_buffer>>

(***************************************************************************)
(* The gateway endpoint: the provisioning memory and parse_endpoint.  A C  *)
(* string is the sequence of its characters.                               *)
(***************************************************************************)
\* sizeof(gateway_endpoint), and sizeof(host) of wasmbed_protocol_init.
ENDPOINT_SIZE == 64
HOST_SIZE == 64

\* "127.0.0.1:40029", the endpoint used when none can be read.
DefaultEndpoint ==
    <<"1", "2", "7", ".", "0", ".", "0", ".", "1", ":", "4", "0", "0", "2", "9">>

\* What the provisioning memory may hold: a length word and the characters
\* after it.  Nothing written, an address and a port, a name and a port,
\* a string with no colon, and a length the buffer cannot take.
Provisioned == {
    [length |-> 0, text |-> <<>>],
    [length |-> 10, text |-> AddrHost \o <<":", "7">>],
    [length |-> 4, text |-> NameHost \o <<":", "7">>],
    [length |-> 2, text |-> NameHost],
    [length |-> ENDPOINT_SIZE, text |-> <<>>] }

\* read_gateway_endpoint: the return value and the string gateway_endpoint
\* holds afterwards.
read_gateway_endpoint(prov) ==
    IF prov.length = 0 \/ prov.length >= ENDPOINT_SIZE THEN
        [ret |-> -1, endpoint |-> gateway_endpoint]
    ELSE
        [ret |-> 0, endpoint |-> SubSeq(prov.text, 1, prov.length)]

\* strchr: the place of the first c in s, 0 when there is none.
IndexOf(s, c) ==
    LET at == {i \in 1 .. Len(s) : s[i] = c}
    IN  IF at = {} THEN 0 ELSE MinOf(at)

DigitValue(c) == CHOOSE v \in 0 .. 9 : <<"0", "1", "2", "3", "4", "5", "6", "7", "8", "9">>[v + 1] = c

\* The value of the leading digits of s, after the digits read so far.
RECURSIVE AtoiDigits(_, _)
AtoiDigits(s, acc) ==
    IF s = <<>> \/ Head(s) \notin Digits THEN acc
    ELSE AtoiDigits(Tail(s), acc * 10 + DigitValue(Head(s)))

\* atoi: blanks, an optional sign, then digits up to the first other character.
RECURSIVE Atoi(_)
Atoi(s) ==
    IF s = <<>> THEN 0
    ELSE IF Head(s) = " " THEN Atoi(Tail(s))
    ELSE IF Head(s) = "-" THEN 0 - AtoiDigits(Tail(s), 0)
    ELSE IF Head(s) = "+" THEN AtoiDigits(Tail(s), 0)
    ELSE AtoiDigits(s, 0)

\* (uint16_t) of an int
ToUint16(v) == v % 65536

parse_endpoint(endpoint, host_len) ==
    LET colon == IndexOf(endpoint, ":")
        host == SubSeq(endpoint, 1, colon - 1)
        port == ToUint16(Atoi(SubSeq(endpoint, colon + 1, Len(endpoint))))
    IN  IF colon = 0 THEN [ret |-> -1, err |-> "MissingPort", host |-> <<>>, port |-> 0]
        ELSE IF colon - 1 >= host_len THEN [ret |-> -1, err |-> "HostTooLong", host |-> <<>>, port |-> 0]
        ELSE IF port = 0 THEN [ret |-> -1, err |-> "InvalidPort", host |-> host, port |-> 0]
        ELSE [ret |-> 0, err |-> "OK", host |-> host, port |-> port]

(***************************************************************************)
(* wasmbed_protocol_init                                                   *)
(***************************************************************************)
wasmbed_protocol_init(prov, o) ==
    IF protocol_initialized THEN
        /\ last' = [op |-> "protocol_init", ret |-> 0, err |-> "AlreadyInitialized", os |-> <<>>,
                    connect |-> "none"]
        /\ UNCHANGED net_vars
    ELSE
        LET r == read_gateway_endpoint(prov)
            endpoint == IF r.ret # 0 THEN DefaultEndpoint ELSE r.endpoint
            p == parse_endpoint(endpoint, HOST_SIZE)
            c == Connect(TRUE, p.host, p.port, o)
        IN  /\ gateway_endpoint' = endpoint
            /\ protocol_initialized' = TRUE
            /\ IF p.ret = 0 THEN
                   /\ socket_fd' = c.socket_fd
                   /\ ConnectOs(c)
                   /\ gateway_connected' = IF c.ret = 0 THEN TRUE ELSE gateway_connected
                   /\ last' = [op |-> "protocol_init", ret |-> 0, err |-> "OK", os |-> c.os,
                               connect |-> IF c.ret = 0 THEN "ok" ELSE "failed",
                               host |-> p.host, port |-> p.port,
                               read |-> r.ret, parse |-> p.ret]
               ELSE
                   /\ last' = [op |-> "protocol_init", ret |-> 0, err |-> "OK", os |-> <<>>,
                               connect |-> "none", read |-> r.ret, parse |-> p.ret]
                   /\ UNCHANGED <<socket_fd, gateway_connected, os_vars>>
            /\ UNCHANGED <<network_initialized, net_iface, recv_buffer>>

(***************************************************************************)
(* wasmbed_protocol_handle_message, wasmbed_protocol_send_message.  data   *)
(* is the bytes handed in; no bytes stands for a NULL pointer or length 0. *)
(***************************************************************************)
wasmbed_protocol_handle_message(data) ==
    /\ last' = IF ~protocol_initialized THEN
                   [op |-> "handle_message", ret |-> -1, err |-> "NotInitialized",
                    os |-> <<>>, eng |-> <<>>, data |-> data]
               ELSE IF data = <<>> THEN
                   [op |-> "handle_message", ret |-> -1, err |-> "InvalidArgument",
                    os |-> <<>>, eng |-> <<>>, data |-> data]
               ELSE
                   [op |-> "handle_message", ret |-> 0, err |-> "OK",
                    os |-> <<>>, eng |-> <<>>, data |-> data]
    /\ UNCHANGED net_vars

\* if (!gateway_connected)
GatewayNotConnected == ~gateway_connected

wasmbed_protocol_send_message(data_len, sent) ==
    LET s == Send(data_len, sent)
    IN  /\ last' = IF ~protocol_initialized THEN
                       [op |-> "send_message", ret |-> -1, err |-> "NotInitialized",
                        os |-> <<>>, data_len |-> data_len, sent |-> 0]
                   ELSE IF GatewayNotConnected THEN
                       [op |-> "send_message", ret |-> -1, err |-> "NotConnected",
                        os |-> <<>>, data_len |-> data_len, sent |-> 0]
                   ELSE IF data_len = 0 THEN
                       [op |-> "send_message", ret |-> -1, err |-> "InvalidArgument",
                        os |-> <<>>, data_len |-> data_len, sent |-> 0]
                   ELSE
                       [op |-> "send_message", ret |-> IF s.ret # 0 THEN -1 ELSE 0,
                        err |-> s.err, os |-> s.os, data_len |-> data_len, sent |-> s.sent]
        /\ UNCHANGED net_vars

(***************************************************************************)
(* The registry API, called in any order; the network is left alone.       *)
(***************************************************************************)
\* A call of the registry API leaves the network and the thread alone.
NetIdle == UNCHANGED <<net_vars, pc>>

Next ==
    \/ \E rt_ok \in BOOLEAN : wamr_init(rt_ok) /\ NetIdle
    \/ \E a \in LoadArgs, eng_ok \in BOOLEAN :
          /\ eng_ok => next_module_id <= MaxModuleIds
          /\ wamr_load_module(a, eng_ok)
          /\ NetIdle
    \/ \E module_id \in 0 .. MaxModuleIds, o \in InstantiateOutcomes :
          /\ (o = "ok") => next_instance_id <= MaxInstanceIds
          /\ wamr_instantiate(module_id, o)
          /\ NetIdle
    \/ \E c \in CallArgs, o \in CallOutcomes : wamr_call_function(c, o) /\ NetIdle
    \/ wamr_process /\ NetIdle
    \/ wamr_cleanup /\ NetIdle

Spec == Init /\ [][Next]_vars

(***************************************************************************)
(* The network and protocol API, called in any order by one thread, and    *)
(* the peer.                                                               *)
(***************************************************************************)
SendLens == 1 .. MaxSendLen
\* zsock_send fails, or takes some or all of the bytes; on a connection that
\* is reset it fails.
SendAnswers(data_len) == IF link = "reset" THEN {-1} ELSE {-1} \cup (1 .. data_len)
BufferLens == 1 .. RECV_BUFFER_LEN

\* The byte strings a caller hands to wasmbed_protocol_handle_message.
Messages == {<<>>} \cup {Frame(kind) : kind \in MsgKinds}

\* A call of the network API is made when no call is waiting, and leaves
\* the registry alone.
ApiCall == pc = "api" /\ ~Waiting
WamrIdle == UNCHANGED <<wamr_vars, pc>>

NetNext ==
    \/ ApiCall /\ WamrIdle /\ \E iface_ok \in BOOLEAN : network_init(iface_ok)
    \/ ApiCall /\ WamrIdle /\ network_process
    \/ ApiCall /\ WamrIdle /\ \E host \in Hosts, o \in ConnectOutcomes :
          network_connect(host, GATEWAY_PORT, o)
    \/ ApiCall /\ WamrIdle /\ \E host \in Hosts, o \in ConnectOutcomes :
          network_connect_tls(host, GATEWAY_PORT, o)
    \/ ApiCall /\ WamrIdle /\ \E data_len \in SendLens : \E sent \in SendAnswers(data_len) :
          network_send(data_len, sent)
    \/ ApiCall /\ WamrIdle /\ \E buffer_len \in BufferLens, n \in 1 .. MaxRx :
          network_receive(buffer_len, n)
    \/ pc = "api" /\ WamrIdle /\ \E n \in 1 .. MaxRx : network_receive_return(n)
    \/ ApiCall /\ WamrIdle /\ \E prov \in Provisioned, o \in ConnectOutcomes :
          wasmbed_protocol_init(prov, o)
    \/ ApiCall /\ WamrIdle /\ \E data \in Messages : wasmbed_protocol_handle_message(data)
    \/ ApiCall /\ WamrIdle /\ \E data_len \in 0 .. MaxSendLen : \E sent \in SendAnswers(data_len) :
          wasmbed_protocol_send_message(data_len, sent)
    \/ WamrIdle /\ \E kind \in MsgKinds : PeerSends(kind)
    \/ WamrIdle /\ PeerCloses
    \/ WamrIdle /\ LinkResets

NetSpec == Init /\ [][NetNext]_vars

(***************************************************************************)
(* The start-up calls of the three components, made in any order and any   *)
(* number of times, with modules loaded and instantiated in between.       *)
(***************************************************************************)
StartNext ==
    \/ (\E rt_ok \in BOOLEAN : wamr_init(rt_ok)) /\ NetIdle
    \/ \E a \in LoadArgs, eng_ok \in BOOLEAN :
          /\ eng_ok => next_module_id <= MaxModuleIds
          /\ wamr_load_module(a, eng_ok)
          /\ NetIdle
    \/ \E module_id \in 0 .. MaxModuleIds, o \in InstantiateOutcomes :
          /\ (o = "ok") => next_instance_id <= MaxInstanceIds
          /\ wamr_instantiate(module_id, o)
          /\ NetIdle
    \/ ApiCall /\ WamrIdle /\ \E iface_ok \in BOOLEAN : network_init(iface_ok)
    \/ ApiCall /\ WamrIdle /\ \E prov \in Provisioned, o \in ConnectOutcomes :
          wasmbed_protocol_init(prov, o)

StartSpec == Init /\ [][StartNext]_vars

(***************************************************************************)
(* main: the start-up calls and the control loop.  pc names the statement  *)
(* the thread is at; recv_buffer is the local buffer, as the bytes the     *)
(* receive of this iteration put into it.                                  *)
(***************************************************************************)
MainInit == Statics /\ pc = "network_init"

\* Mutant: a receive that failed ends main.
AfterReceive_ExitsOnError(r) ==
    IF r.op = "zsock_recv_wait" THEN "receive"
    ELSE IF r.ret # 0 THEN "exit"
    ELSE IF r.received_len > 0 THEN "handle"
    ELSE "wamr_process"

\* if (network_receive(...) == 0 && received_len > 0)
AfterReceive(r) ==
    IF r.op = "zsock_recv_wait" THEN "receive"
    ELSE IF r.ret = 0 /\ r.received_len > 0 THEN "handle"
    ELSE "wamr_process"

MainNetworkInit ==
    /\ pc = "network_init"
    /\ \E iface_ok \in BOOLEAN : network_init(iface_ok)
    /\ pc' = "wamr_init"
    /\ UNCHANGED wamr_vars

MainWamrInit ==
    /\ pc = "wamr_init"
    /\ \E rt_ok \in BOOLEAN : wamr_init(rt_ok)
    /\ pc' = IF last'.ret # 0 THEN "exit" ELSE "protocol_init"
    /\ UNCHANGED net_vars

MainProtocolInit ==
    /\ pc = "protocol_init"
    /\ \E prov \in Provisioned, o \in ConnectOutcomes : wasmbed_protocol_init(prov, o)
    /\ pc' = IF last'.ret # 0 THEN "exit" ELSE "network_process"
    /\ UNCHANGED wamr_vars

MainNetworkProcess ==
    /\ pc = "network_process"
    /\ network_process
    /\ pc' = "receive"
    /\ UNCHANGED wamr_vars

MainReceive ==
    /\ pc = "receive"
    /\ ~Waiting
    /\ \E n \in 1 .. MaxRx : network_receive(RECV_BUFFER_LEN, n)
    /\ pc' = AfterReceive(last')
    /\ UNCHANGED wamr_vars

MainReceiveReturn ==
    /\ pc = "receive"
    /\ \E n \in 1 .. MaxRx : network_receive_return(n)
    /\ pc' = AfterReceive(last')
    /\ UNCHANGED wamr_vars

MainHandleMessage ==
    /\ pc = "handle"
    /\ wasmbed_protocol_handle_message(recv_buffer)
    /\ pc' = "wamr_process"
    /\ UNCHANGED wamr_vars

MainWamrProcess ==
    /\ pc = "wamr_process"
    /\ wamr_process
    /\ pc' = "sleep"
    /\ UNCHANGED net_vars

\* k_sleep(K_MSEC(100)), the yield of the loop
MainSleep ==
    /\ pc = "sleep"
    /\ last' = [op |-> "k_sleep", ret |-> 0, err |-> "OK", os |-> <<>>]
    /\ pc' = "network_process"
    /\ recv_buffer' = <<>>
    /\ UNCHANGED <<wamr_vars, network_vars, protocol_vars, os_vars>>

MainThread ==
    \/ MainNetworkInit
    \/ MainWamrInit
    \/ MainProtocolInit
    \/ MainNetworkProcess
    \/ MainReceive
    \/ MainReceiveReturn
    \/ MainHandleMessage
    \/ MainWamrProcess
    \/ MainSleep

MainNext ==
    \/ MainThread
    \/ WamrIdle /\ \E kind \in MsgKinds : PeerSends(kind)
    \/ WamrIdle /\ PeerCloses
    \/ WamrIdle /\ LinkResets

MainSpec == MainInit /\ [][MainNext]_vars

\* The control thread is scheduled whenever it can run.
FairMainSpec == MainSpec /\ WF_vars(MainThread)

(***************************************************************************)
(* Properties.  A step of an API call is told by the record it leaves in   *)
(* last; the unprimed variables are the state the call found.              *)
(***************************************************************************)
InUseModules == {i \in ModuleSlots : modules[i].in_use}
InUseInstances == {i \in InstanceSlots : instances[i].in_use}
ModulesFull == InUseModules = ModuleSlots
InstancesFull == InUseInstances = InstanceSlots
ValidLoadArgs(a) == a.bytes # NullPtr /\ a.size # 0 /\ a.out
EngineAsked(log, f) == \E k \in DOMAIN log : log[k].f = f
EngineRefused(log) ==
    \E k \in DOMAIN log : log[k].f \in {"instantiate", "create_exec_env"} /\ log[k].h = NULL

\* C1: when every module slot is in use, a load_module call (with valid
\* parameters) fails with ResourceExhausted, no module entry and neither id
\* counter changes, and the engine is not asked to compile.
C1_FullRegistryRejectsLoad ==
    [][ (ModulesFull /\ last'.op = "load" /\ ValidLoadArgs(last'.a))
        => /\ last'.ret = -1
           /\ last'.err = "ResourceExhausted"
           /\ modules' = modules
           /\ next_module_id' = next_module_id
           /\ ~EngineAsked(last'.eng, "load")
           /\ eng_modules' = eng_modules ]_vars

\* C1 witness: MAX_MODULES loads have succeeded, all are still loaded, and a
\* further load has just been refused.
C1_Witness ==
    /\ ModulesFull
    /\ Cardinality(hist_module_ids) >= MAX_MODULES
    /\ last.op = "load"
    /\ last.err = "ResourceExhausted"

\* C2: in every reachable state at most MAX_MODULES module entries and at most
\* MAX_INSTANCES instance entries are in use, and the engine holds no more
\* compiled modules, instances and execution environments than that.
C2_CapacityInvariant ==
    /\ Cardinality(InUseModules) <= MAX_MODULES
    /\ Cardinality(InUseInstances) <= MAX_INSTANCES
    /\ Cardinality(eng_modules) <= MAX_MODULES
    /\ Cardinality(eng_instances) <= MAX_INSTANCES
    /\ Cardinality(eng_envs) <= MAX_INSTANCES

\* C2 witness: both registries are full and an instantiate has just been
\* refused for lack of a slot.
C2_Witness ==
    /\ ModulesFull
    /\ InstancesFull
    /\ last.op = "instantiate"
    /\ last.err = "ResourceExhausted"

\* C3: every successful load_module returns an id greater than every module id
\* returned before (also across failed loads and teardown followed by
\* re-initialisation), and no two in-use module entries share an id.
C3_ModuleIdsStrictlyIncrease ==
    [][ /\ (last'.op = "load" /\ last'.ret = 0)
           => \A id \in hist_module_ids : last'.out > id
        /\ \A i, j \in ModuleSlots :
              (i # j /\ modules'[i].in_use /\ modules'[j].in_use)
              => modules'[i].id # modules'[j].id ]_vars

\* C3 witness: a load has succeeded after a teardown and re-initialisation
\* that released a module loaded earlier.
C3_Witness ==
    /\ last.op = "load"
    /\ last.ret = 0
    /\ \E id \in hist_module_ids :
          /\ id < last.out
          /\ \A i \in ModuleSlots : ~(modules[i].in_use /\ modules[i].id = id)

\* The module id has had an instance that was destroyed since.
DestroyedInstanceOf(module_id) ==
    \E iid \in hist_destroyed : <<iid, module_id>> \in hist_inst_module

HasLiveInstance(module) ==
    \E i \in InUseInstances :
        [h |-> instances[i].instance, module |-> module] \in eng_instances

C6_FailedLoadLeavesRegistry ==
    [][ (last'.op = "load" /\ wamr_initialized)
        => /\ ~ValidLoadArgs(last'.a) => last'.err = "InvalidParams"
           /\ (ValidLoadArgs(last'.a) /\ ~ModulesFull /\ last'.a.bytes = Garbage)
              => last'.err = "CompileError"
           /\ last'.err \in {"CompileError", "InvalidParams"}
              => /\ last'.ret = -1
                 /\ modules' = modules
                 /\ instances' = instances
                 /\ next_module_id' = next_module_id
                 /\ next_instance_id' = next_instance_id
                 /\ eng_modules' = eng_modules
           /\ last'.ret = 0
              => /\ last'.out = next_module_id
                 /\ next_module_id' = next_module_id + 1
                 /\ \E s \in ModuleSlots :
                       /\ ~modules[s].in_use
                       /\ modules'[s].in_use
                       /\ modules'[s].id = last'.out
                       /\ modules'[s].module # NULL
                       /\ modules'[s].module \in eng_modules' \ eng_modules
                       /\ \A t \in ModuleSlots \ {s} : modules'[t] = modules[t] ]_vars

\* C6 witness: the engine has just rejected a module while another module is
\* loaded and an id has been issued.
C6_Witness ==
    /\ last.op = "load"
    /\ last.err = "CompileError"
    /\ InUseModules # {}
    /\ next_module_id > FIRST_ID

\* C7: instantiate fails with NotFound when no in-use module entry has the
\* id, with ResourceExhausted when the module exists and every instance slot
\* is in use, with InstantiationError exactly when the engine fails to create
\* the instance or its execution environment; a failed instantiate leaves
\* every instance entry, both counters and the module registry unchanged, and
\* the engine holds what it held before.
C7_InstantiateFailures ==
    [][ (last'.op = "instantiate" /\ wamr_initialized)
        => LET known == \E i \in ModuleSlots :
                           modules[i].in_use /\ modules[i].id = last'.module_id
           IN  /\ ~known => last'.err = "NotFound"
               /\ (known /\ InstancesFull) => last'.err = "ResourceExhausted"
               /\ last'.err = "NotFound" => ~known
               /\ last'.err = "ResourceExhausted" => (known /\ InstancesFull)
               /\ last'.err = "InstantiationError" <=> EngineRefused(last'.eng)
               /\ last'.ret = 0 <=> last'.err = "OK"
               /\ last'.ret # 0
                  => /\ last'.ret = -1
                     /\ instances' = instances
                     /\ next_instance_id' = next_instance_id
                     /\ modules' = modules
                     /\ next_module_id' = next_module_id
                     /\ eng_instances' = eng_instances
                     /\ eng_envs' = eng_envs ]_vars

\* C7 witness: the engine created the instance but not its execution
\* environment, with an instance of the module already in the registry.
C7_Witness ==
    /\ last.op = "instantiate"
    /\ last.err = "InstantiationError"
    /\ EngineAsked(last.eng, "deinstantiate")
    /\ InUseInstances # {}

\* C8: wamr_call_function changes no module entry, no instance entry and no
\* counter, whatever its outcome; and a call on the instance id of a call that
\* has just ended in a non-fatal trap still finds the instance.
C8_InvokeLeavesRegistry ==
    [][ last'.op = "call"
        => /\ modules' = modules
           /\ instances' = instances
           /\ next_module_id' = next_module_id
           /\ next_instance_id' = next_instance_id
           /\ wamr_initialized' = wamr_initialized
           /\ last'.prev = "trap" => last'.err \notin {"NotFound", "NotInitialized"} ]_vars

\* C8 witness: a call has succeeded on an instance whose previous call
\* trapped.
C8_Witness ==
    /\ last.op = "call"
    /\ last.prev = "trap"
    /\ last.ret = 0

\* C9 (as claimed): a successful invoke of add with arguments (5, 3) hands the
\* caller the result vector [8].
C9_AddReturnsResultVector ==
    (last.op = "call" /\ last.ret = 0 /\ last.fname = "add" /\ last.args_in = <<5, 3>>)
    => last.results = <<8>>

\* C10 (as claimed): a call on an instance that a fatal trap has hit fails
\* with InstanceDead and makes no engine call.
C10_FatalTrapKillsInstance ==
    [][ (last'.op = "call"
         /\ \E s \in InUseInstances :
               instances[s].id = last'.instance_id /\ instances[s].instance \in eng_fatal)
        => (last'.ret = -1 /\ last'.err = "InstanceDead" /\ last'.eng = <<>>) ]_vars

(***************************************************************************)
(* Properties of the transport and of the protocol handler.  A step of a   *)
(* call is told by the record it leaves in last; the log of the call,      *)
(* last.os, lists the calls it made into the socket layer.                 *)
(***************************************************************************)
ConnectOps == {"network_connect", "network_connect_tls"}

\* A step of the call (socket creation, address resolution, connect with
\* its handshake) was refused by the socket layer.
StepRefused(log) == \E i \in 1 .. Len(log) : log[i].r = -1

\* No socket is open and none is held.
TransportDisconnected == socket_fd = NO_SOCKET /\ os_fds = {} /\ os_conn = NO_SOCKET

C12_FailureDisconnects ==
    [][ (last'.op \in {"network_send", "network_receive"} /\ last'.ret # 0)
          => (TransportDisconnected' /\ ~gateway_connected') ]_vars

\* C13: when the transport is disconnected as the control loop runs (the
\* connect of start-up has failed), the loop makes a connect attempt, or the
\* gateway gets connected: the loop retries.
C13_LoopRetriesConnect ==
    [] ( (pc = "network_process" /\ network_initialized /\ socket_fd = NO_SOCKET)
           => <> (last.op \in ConnectOps \/ gateway_connected) )

\* The call handed bytes to zsock_send.
HandedToSocket(log) == \E i \in 1 .. Len(log) : log[i].f = "send"

\* C14: wasmbed_protocol_send_message called while the gateway is not
\* connected, and network_send called with no open socket, fail and hand no
\* bytes to zsock_send; the failure is NotConnected once the protocol
\* handler is initialised.
C14_SendWhenNotConnected ==
    [][ /\ (last'.op = "send_message" /\ ~gateway_connected)
              => /\ last'.ret = -1
                 /\ ~HandedToSocket(last'.os)
                 /\ protocol_initialized => last'.err = "NotConnected"
        /\ (last'.op = "network_send" /\ socket_fd < 0)
              => /\ last'.ret = -1
                 /\ last'.err = "NotConnected"
                 /\ ~HandedToSocket(last'.os) ]_vars

\* wasmbed_protocol_send_message was refused after initialisation and before
\* any connection, although the transport had been connected directly.
C14_Witness ==
    /\ last.op = "send_message"
    /\ last.err = "NotConnected"
    /\ protocol_initialized
    /\ ~gateway_connected
    /\ socket_fd >= 0

\* C15: a send that returns success has written every byte of the message:
\* the bytes zsock_send took are all the bytes asked for.
C15_SendAllOrError ==
    (last.op \in {"network_send", "send_message"} /\ last.ret = 0)
        => last.sent = last.data_len

(***************************************************************************)
(* Properties of the control loop.                                         *)
(***************************************************************************)
\* The transport is connected and the peer has sent nothing that is unread.
ConnectedNoData == socket_fd >= 0 /\ link = "up" /\ rx = <<>>

\* C16: the network_receive the control loop makes on a connected transport
\* with no pending bytes returns success with 0 bytes read and leaves the
\* socket open, and the loop goes on without calling the protocol handler.
C16_EmptyReceiveReturnsZero ==
    [][ (pc = "receive" /\ ~Waiting /\ ConnectedNoData
         /\ last'.op \in {"network_receive", "zsock_recv_wait"})
          => /\ last'.op = "network_receive"
             /\ last'.ret = 0
             /\ last'.received_len = 0
             /\ socket_fd' = socket_fd
             /\ os_fds' = os_fds
             /\ pc' = "wamr_process" ]_vars

\* C17: every iteration of the control loop reaches its yield: from the
\* receive poll the thread gets to k_sleep, whatever the peer does.
C17_IterationReachesYield == [] (pc = "receive" => <> (pc = "sleep"))

(***************************************************************************)
(* Properties of the dispatcher.  The bytes handed to the handler are told *)
(* by the frame they belong to and their place in it.                      *)
(***************************************************************************)
\* The bytes hold the head of a frame whose length field is above the
\* maximum message size.
DeclaresTooLarge(data) == \E i \in 1 .. Len(data) : data[i].msg = "oversize" /\ data[i].k = 1

\* The bytes are one whole frame, from its first byte to its last.
CompleteFrame(data) ==
    /\ Len(data) = FrameLen
    /\ \A i \in 1 .. Len(data) : data[i].k = i /\ data[i].msg = data[1].msg

\* The handler was handed bytes and took them for a message.
Dispatched(r) == r.op = "handle_message" /\ r.ret = 0

\* C18: the handler rejects bytes that declare a frame above the maximum
\* message size, as FrameTooLarge, and doing so changes neither the
\* registry nor the connection.
C18_OversizeFrameRejected ==
    [][ (last'.op = "handle_message" /\ protocol_initialized /\ DeclaresTooLarge(last'.data))
          => /\ last'.ret = -1
             /\ last'.err = "FrameTooLarge"
             /\ UNCHANGED <<registry_vars, socket_fd, gateway_connected>> ]_vars

\* C19: what the control loop dispatches to the handler is a complete
\* frame, never a part of one.
C19_DispatchesCompleteFrames == Dispatched(last) => CompleteFrame(last.data)

\* C20: handling a Deploy message either loads a module and instantiates it
\* (the registry issues a module id and an instance id), or sends an Error
\* response and leaves the registry as it was.
C20_DeployDrivesRegistry ==
    [][ (Dispatched(last') /\ CompleteFrame(last'.data) /\ last'.data[1].msg = "deploy")
          => \/ next_module_id' > next_module_id /\ next_instance_id' > next_instance_id
             \/ HandedToSocket(last'.os) /\ UNCHANGED registry_vars ]_vars

\* C21: handling a Heartbeat message sends a reply through the transport
\* and leaves the registry as it was.
C21_HeartbeatAnswered ==
    [][ (last'.op = "handle_message" /\ protocol_initialized
         /\ CompleteFrame(last'.data) /\ last'.data[1].msg = "heartbeat")
          => (HandedToSocket(last'.os) /\ UNCHANGED registry_vars) ]_vars

\* The statements of the while (1) loop of main.
LoopPcs == {"network_process", "receive", "handle", "wamr_process", "sleep"}

\* C22: main ends only at a failed wamr_init; after wamr_init has succeeded
\* the thread goes on to wasmbed_protocol_init and from there into the loop,
\* and no step of the loop leaves the loop, whatever network_init, the
\* endpoint, the connect, the receive or the handler returned.
C22_OnlyEngineFailureStopsLoop ==
    [][ /\ (pc' = "exit" /\ pc # "exit")
              => (pc = "wamr_init" /\ last'.op = "init" /\ last'.ret # 0)
        /\ (pc = "wamr_init" /\ last'.op = "init" /\ last'.ret = 0) => pc' = "protocol_init"
        /\ (pc = "protocol_init" /\ pc' # pc) => pc' = "network_process"
        /\ (pc \in LoopPcs) => (pc' \in LoopPcs) ]_vars

\* The loop has run an iteration to its yield although network_init failed,
\* the endpoint did not parse and the receive returned an error.
C22_Witness ==
    /\ pc = "sleep"
    /\ wamr_initialized
    /\ ~network_initialized
    /\ gateway_endpoint = NameHost
    /\ socket_fd = NO_SOCKET

(***************************************************************************)
(* Properties of the gateway endpoint.                                     *)
(***************************************************************************)
\* The host and the port of the default endpoint.
DefaultHost == SubSeq(DefaultEndpoint, 1, IndexOf(DefaultEndpoint, ":") - 1)

\* wasmbed_protocol_init ran its body: it was not initialised before.
ProtocolInitRuns == last'.op = "protocol_init" /\ ~protocol_initialized

\* C23: when wasmbed_protocol_init cannot read the endpoint from the
\* provisioning memory, or the string it read does not parse, it makes its
\* connection attempt to the default endpoint.
C23_FallsBackToDefault ==
    [][ (ProtocolInitRuns /\ (last'.read # 0 \/ last'.parse # 0))
          => /\ last'.connect # "none"
             /\ last'.host = DefaultHost
             /\ last'.port = GATEWAY_PORT ]_vars

(***************************************************************************)
(* parse_endpoint as a function of its arguments: every string over a few  *)
(* characters up to MaxEndpointLen, and some ports at the edge of 16 bits, *)
(* parsed into a host buffer of a few sizes.                               *)
(***************************************************************************)
MaxEndpointLen == 4

\* A letter, the colon, digits, a sign.
EndpointChars == {"h", ":", "0", "7", "x", "-"}

Strings(n) == UNION {[1 .. k -> EndpointChars] : k \in 0 .. n}

\* ":65535", ":65536", ":70000", ":-1"
EdgePorts == {
    <<":", "6", "5", "5", "3", "5">>,
    <<":", "6", "5", "5", "3", "6">>,
    <<":", "7", "0", "0", "0", "0">>,
    <<":", "-", "1">> }

ParseInputs == Strings(MaxEndpointLen) \cup EdgePorts

\* sizeof of the host buffer the caller passes: 64 in wasmbed_protocol_init,
\* and a buffer that two characters fill.
HostLens == {3, HOST_SIZE}

ParseInit ==
    /\ Memory
    /\ pc = "parse"
    /\ last \in {[op |-> "parse_args", endpoint |-> e, host_len |-> n] :
                    e \in ParseInputs, n \in HostLens}

ParseCall ==
    /\ pc = "parse"
    /\ last.op = "parse_args"
    /\ LET p == parse_endpoint(last.endpoint, last.host_len)
       IN  last' = [op |-> "parse_endpoint", endpoint |-> last.endpoint,
                    host_len |-> last.host_len, ret |-> p.ret, err |-> p.err,
                    host |-> p.host, port |-> p.port]
    /\ UNCHANGED <<wamr_vars, net_vars, pc>>

ParseSpec == ParseInit /\ [][ParseCall]_vars

\* The text after the first colon, and what it is.
PortText(endpoint) == SubSeq(endpoint, IndexOf(endpoint, ":") + 1, Len(endpoint))
Numeric(text) == text # <<>> /\ \A i \in 1 .. Len(text) : text[i] \in Digits

\* The text without its sign, when it has one.
Unsigned(text) == IF text # <<>> /\ Head(text) \in {"-", "+"} THEN Tail(text) ELSE text

\* The number a string of digits writes.
RECURSIVE Decimal(_)
Decimal(text) ==
    IF text = <<>> THEN 0
    ELSE 10 * Decimal(SubSeq(text, 1, Len(text) - 1)) + DigitValue(text[Len(text)])

\* C24: parse_endpoint succeeds only for a string with a colon, a host
\* before it that fits the host buffer, and after it a port that is a
\* number (signed or not) and not zero; for every other string it fails.
C24_ParseAcceptsOnlyHostPort ==
    (last.op = "parse_endpoint" /\ last.ret = 0)
        => /\ IndexOf(last.endpoint, ":") # 0
           /\ IndexOf(last.endpoint, ":") - 1 < last.host_len
           /\ Numeric(Unsigned(PortText(last.endpoint)))
           /\ Decimal(Unsigned(PortText(last.endpoint))) # 0

\* C30: when parse_endpoint succeeds on a port written as a number, the
\* port it returns is the value written, and that value is in 1..65535: a
\* negative value or one above 65535 is not accepted as some other port.
C30_PortIsValueInRange ==
    (last.op = "parse_endpoint" /\ last.ret = 0
     /\ Numeric(Unsigned(PortText(last.endpoint))))
        => /\ Numeric(PortText(last.endpoint))
           /\ last.port = Decimal(PortText(last.endpoint))
           /\ last.port \in 1 .. 65535

(***************************************************************************)
(* Properties of teardown and of the handles the engine holds.             *)
(***************************************************************************)
\* C25: wamr_cleanup, for every instance in use, destroys its execution
\* environment and then deinstantiates it; every such call comes before the
\* first unload, every module in use is unloaded, and afterwards no module
\* or instance slot is in use.
C25_TeardownOrder ==
    [][ (last'.op = "cleanup" /\ wamr_initialized)
          => LET log == last'.eng
             IN  /\ \A s \in InUseInstances :
                       \E j, k \in DOMAIN log :
                          /\ j < k
                          /\ log[j] = EngCall("destroy_exec_env", instances[s].exec_env)
                          /\ log[k] = EngCall("deinstantiate", instances[s].instance)
                 /\ \A j, k \in DOMAIN log :
                       (log[j].f = "unload" /\ log[k].f \in {"destroy_exec_env", "deinstantiate"})
                          => k < j
                 /\ \A m \in InUseModules :
                       \E j \in DOMAIN log : log[j] = EngCall("unload", modules[m].module)
                 /\ \A i \in InstanceSlots : ~instances'[i].in_use
                 /\ \A i \in ModuleSlots : ~modules'[i].in_use ]_vars

\* A teardown that found two instances and a module.
C25_Witness ==
    /\ last.op = "cleanup"
    /\ Cardinality(Released(last.eng, "deinstantiate")) >= 2
    /\ Cardinality(Released(last.eng, "destroy_exec_env")) >= 2
    /\ Released(last.eng, "unload") # {}
    /\ \A i \in InstanceSlots : ~instances[i].in_use

\* What the engine holds is what the in-use slots hold, each handle in one
\* slot only.
SlotModuleHandles == {modules[i].module : i \in InUseModules}
SlotInstanceHandles == {instances[i].instance : i \in InUseInstances}
SlotEnvHandles == {instances[i].exec_env : i \in InUseInstances}
HandlesAccounted ==
    /\ eng_modules = SlotModuleHandles
    /\ EngInstanceHandles = SlotInstanceHandles
    /\ EngEnvHandles = SlotEnvHandles
    /\ Cardinality(SlotModuleHandles) = Cardinality(InUseModules)
    /\ Cardinality(SlotInstanceHandles) = Cardinality(InUseInstances)
    /\ Cardinality(SlotEnvHandles) = Cardinality(InUseInstances)
    /\ Cardinality(eng_instances) = Cardinality(InUseInstances)
    /\ Cardinality(eng_envs) = Cardinality(InUseInstances)
    /\ \A e \in eng_envs : e.instance \in SlotInstanceHandles
    /\ \A i \in eng_instances : i.module \in SlotModuleHandles

\* The instance the engine made in this call and the environment it refused.
EnvCreationFailed(log) ==
    \E k \in DOMAIN log : log[k] = EngCall("create_exec_env", NULL)

\* C26: before and after every call the modules, instances and execution
\* environments the engine holds are exactly the handles of the in-use
\* slots, each in one slot; a teardown releases exactly what the engine
\* held; an instantiate whose environment creation fails deinstantiates the
\* instance it had made; a load with no free slot does not call the engine.
C26_NoHandleLeakedOrShared ==
    [][ /\ HandlesAccounted
        /\ HandlesAccounted'
        /\ (last'.op = "cleanup" /\ wamr_initialized)
              => /\ Released(last'.eng, "unload") = eng_modules
                 /\ Released(last'.eng, "deinstantiate") = EngInstanceHandles
                 /\ Released(last'.eng, "destroy_exec_env") = EngEnvHandles
        /\ (last'.op = "instantiate" /\ EnvCreationFailed(last'.eng))
              => /\ \E j, k \in DOMAIN last'.eng :
                       /\ j < k
                       /\ last'.eng[j].f = "instantiate"
                       /\ last'.eng[j].h # NULL
                       /\ last'.eng[k] = EngCall("deinstantiate", last'.eng[j].h)
                 /\ UNCHANGED engine_vars
        /\ (last'.op = "load" /\ wamr_initialized /\ ModulesFull)
              => (last'.eng = <<>> /\ UNCHANGED engine_vars) ]_vars

\* An instantiate failed at the execution environment while a module and an
\* instance of it were held.
C26_Witness ==
    /\ last.op = "instantiate"
    /\ EnvCreationFailed(last.eng)
    /\ InUseModules # {}
    /\ InUseInstances # {}
    /\ eng_instances # {}

(***************************************************************************)
(* Properties across the protocol layer and the transport.                 *)
(***************************************************************************)
\* C27 (as claimed): whenever gateway_connected is true the transport holds
\* an open socket, socket_fd >= 0.
C27_ConnectedFlagImpliesSocket == gateway_connected => socket_fd >= 0

(***************************************************************************)
(* Properties of the initialised flags.                                    *)
(***************************************************************************)
\* The calls that need the engine.
EngineOps == {"load", "instantiate", "call"}

\* C28: a load_module, instantiate or call_function made while the layer is
\* not initialised returns an error, writes no output, calls no engine
\* function and leaves the registries, the id counters and the engine as
\* they were.
C28_UninitialisedCallsChangeNothing ==
    [][ (~wamr_initialized /\ last'.op \in EngineOps)
          => /\ last'.ret # 0
             /\ last'.err = "NotInitialized"
             /\ last'.eng = <<>>
             /\ last'.op \in {"load", "instantiate"} => last'.out = NoWrite
             /\ last'.op = "call" => last'.args = last'.args_in
             /\ UNCHANGED <<registry_vars, engine_vars>> ]_vars

\* A call refused after a teardown: ids had been issued, the layer is down.
C28_Witness ==
    /\ last.op \in EngineOps
    /\ last.err = "NotInitialized"
    /\ ~wamr_initialized
    /\ hist_destroyed # {}
    /\ next_module_id > FIRST_ID

\* C29: wamr_init, network_init and wasmbed_protocol_init called when their
\* component is already initialised return 0, make no engine or socket call
\* (no connection attempt) and change no state of any component.
C29_InitIdempotent ==
    [][ /\ (last'.op = "init" /\ wamr_initialized)
              => /\ last'.ret = 0
                 /\ last'.eng = <<>>
                 /\ UNCHANGED <<wamr_vars, net_vars>>
        /\ (last'.op = "network_init" /\ network_initialized)
              => /\ last'.ret = 0
                 /\ last'.os = <<>>
                 /\ UNCHANGED <<wamr_vars, net_vars>>
        /\ (last'.op = "protocol_init" /\ protocol_initialized)
              => /\ last'.ret = 0
                 /\ last'.os = <<>>
                 /\ last'.connect = "none"
                 /\ UNCHANGED <<wamr_vars, net_vars>> ]_vars

\* A second wamr_init made with an instance live and the gateway connected.
C29_Witness ==
    /\ last.op = "init"
    /\ last.err = "AlreadyInitialized"
    /\ InUseInstances # {}
    /\ network_initialized
    /\ protocol_initialized
    /\ gateway_connected
====
